---------------------------- MODULE Spec2Model ----------------------------
(***************************************************************************)
(* CRM-Frontend: the authentication context (AuthContext), the in-memory   *)
(* CRM store (CRMContext), the customer and lead forms, and the dashboard  *)
(* statistics, as one state machine.                                       *)
(*                                                                         *)
(* Conventions.                                                            *)
(*  - A nullable value (User | null, string | null) is a sequence of       *)
(*    length 0 (null) or 1 (the value).                                    *)
(*  - Every store mutation awaits setTimeout(resolve, 500); timers of      *)
(*    equal delay fire in the order they were set, so the mutations in     *)
(*    flight form a FIFO queue (pending).                                  *)
(*  - The effect of CRMProvider on [user] is run in the same step as the   *)
(*    state change that triggers it.                                       *)
(***************************************************************************)
EXTENDS Integers, Sequences, FiniteSets, TLC

VARIABLES
    mounted,         \* the AuthProvider mount effect has run
    user,            \* AuthContext user   (nullable)
    token,           \* AuthContext token  (nullable)
    authLoading,     \* AuthContext loading
    authReq,         \* the login/register call in flight (nullable)
    localStorage,    \* key -> nullable string
    sessionStorage,  \* key -> nullable string
    issued,          \* number of tokens the backend has issued
    customers,       \* CRMContext customers
    leads,           \* CRMContext leads
    loading,         \* CRMContext loading
    pending,         \* store mutations awaiting their 500 ms timer, oldest first
    modal,           \* which form dialog is open: "none", "customer", "lead"
    opsStarted,      \* number of store mutations started so far
    now,             \* the clock read by new Date()
    mockLeadsArr,    \* the module-level array mockLeads, which sort() can reorder
    leadsIsMock,     \* the leads state is that very array object
    last             \* the step taken last, with what it observed

vars == <<mounted, user, token, authLoading, authReq, localStorage, sessionStorage,
          issued, customers, leads, loading, pending, modal, opsStarted, now,
          mockLeadsArr, leadsIsMock, last>>


-----------------------------------------------------------------------------
(* Bounds of the model.                                                    *)

MaxOps == 2          \* store mutations started in one behaviour
MaxLogins == 2       \* tokens the backend issues in one behaviour
MaxEdits == 1        \* edits of a customer started beyond MaxOps, where a
                     \* specification follows an edit of a changed store
ManyLeads == 40      \* leads counted under the Conversion Rate cards

-----------------------------------------------------------------------------
(* Nullable values.                                                        *)

NULL == <<>>
Some(x) == <<x>>
IsNull(v) == v = <<>>
Val(v) == v[1]

(* prev.filter(x => x[key] !== id).                                        *)
FilterOut(s, key, id) ==
    LET F[i \in 0..Len(s)] ==
            IF i = 0 THEN <<>>
            ELSE IF s[i][key] # id THEN Append(F[i-1], s[i]) ELSE F[i-1]
    IN F[Len(s)]


(* Object spread { ...a, ...b }: the fields of b override those of a.      *)
Spread(a, b) ==
    [k \in (DOMAIN a) \cup (DOMAIN b) |-> IF k \in DOMAIN b THEN b[k] ELSE a[k]]

(* prev.map(x => x._id === id ? { ...x, ...data } : x).                    *)
MapById(s, id, data) ==
    [i \in 1..Len(s) |-> IF s[i]._id = id THEN Spread(s[i], data) ELSE s[i]]

-----------------------------------------------------------------------------
(* Numbers.  The counts of the pages are small integers, but a rate is     *)
(* computed in IEEE 754 double arithmetic: a positive double is the record *)
(* [m, e] of the 53 bits m of its significand, most significant first      *)
(* (m[1] = 1), and the exponent e of its last bit, so that its value is    *)
(* NatOf(m) * 2^e; zero is DoubleZero.  Every operation rounds its exact    *)
(* result to the nearest double, ties to the even significand.             *)

DoubleZero == [m |-> <<>>, e |-> 0]
NaN == [m |-> <<>>, e |-> 1]

NatOf(bits) ==
    LET F[i \in 0..Len(bits)] == IF i = 0 THEN 0 ELSE 2 * F[i - 1] + bits[i]
    IN F[Len(bits)]

Zeros(n) == [i \in 1..n |-> 0]

RECURSIVE StripZeros(_)
StripZeros(bits) ==
    IF bits # <<>> /\ Head(bits) = 0 THEN StripZeros(Tail(bits)) ELSE bits

RECURSIVE BitsInc(_)
BitsInc(bits) ==
    IF bits = <<>> THEN <<1>>
    ELSE IF bits[Len(bits)] = 0
         THEN SubSeq(bits, 1, Len(bits) - 1) \o <<1>>
         ELSE BitsInc(SubSeq(bits, 1, Len(bits) - 1)) \o <<0>>

BitsAdd(a, b) ==
    LET n == IF Len(a) > Len(b) THEN Len(a) ELSE Len(b)
        x == Zeros(n - Len(a)) \o a
        y == Zeros(n - Len(b)) \o b
        carry[i \in 0..n] ==
            IF i = 0 THEN 0
            ELSE (x[n - i + 1] + y[n - i + 1] + carry[i - 1]) \div 2
    IN (IF carry[n] = 1 THEN <<1>> ELSE <<>>)
       \o [j \in 1..n |-> (x[j] + y[j] + carry[n - j]) % 2]

RECURSIVE BitsTimes(_, _)
BitsTimes(bits, n) ==
    IF n = 0 THEN <<>>
    ELSE LET twice == BitsTimes(bits, n \div 2) \o <<0>>
         IN IF n % 2 = 1 THEN BitsAdd(twice, bits) ELSE twice

(* The double nearest to NatOf(bits) * 2^e, plus less than 2^e when sticky *)
(* is true, for bits[1] = 1.                                               *)
RoundToDouble(bits, e, sticky) ==
    IF Len(bits) <= 53
    THEN [m |-> bits \o Zeros(53 - Len(bits)), e |-> e - (53 - Len(bits))]
    ELSE LET keep == SubSeq(bits, 1, 53)
             rest == sticky \/ \E i \in 55..Len(bits) : bits[i] = 1
             up == bits[54] = 1 /\ (rest \/ keep[53] = 1)
             r == IF up THEN BitsInc(keep) ELSE keep
         IN IF Len(r) = 54
            THEN [m |-> SubSeq(r, 1, 53), e |-> e + (Len(bits) - 53) + 1]
            ELSE [m |-> r, e |-> e + (Len(bits) - 53)]

(* Long division: the next n bits of r / t for 0 <= r < t, and what is     *)
(* left of r after them.                                                   *)
RECURSIVE QuotientBits(_, _, _)
QuotientBits(r, t, n) ==
    IF n = 0 THEN <<>>
    ELSE IF 2 * r >= t THEN <<1>> \o QuotientBits(2 * r - t, t, n - 1)
         ELSE <<0>> \o QuotientBits(2 * r, t, n - 1)

RECURSIVE RemainderAfter(_, _, _)
RemainderAfter(r, t, n) ==
    IF n = 0 THEN r
    ELSE IF 2 * r >= t THEN RemainderAfter(2 * r - t, t, n - 1)
         ELSE RemainderAfter(2 * r, t, n - 1)

RECURSIVE ShiftUpTo(_, _)
ShiftUpTo(c, t) == IF c >= t THEN 0 ELSE 1 + ShiftUpTo(2 * c, t)

(* c / t on the integers 0 <= c <= t: 0 / 0 is NaN.                        *)
DoubleDiv(c, t) ==
    IF t = 0 THEN NaN
    ELSE IF c = 0 THEN DoubleZero
    ELSE LET k == ShiftUpTo(c, t)
             r == c * (2 ^ k) - t
         IN RoundToDouble(<<1>> \o QuotientBits(r, t, 53), 0 - k - 53,
                          RemainderAfter(r, t, 53) # 0)

(* d * n for a double d and a small positive integer n.                    *)
DoubleTimes(d, n) ==
    IF d = NaN THEN NaN
    ELSE IF d = DoubleZero THEN DoubleZero
    ELSE RoundToDouble(StripZeros(BitsTimes(d.m, n)), d.e, FALSE)

(* Math.round(d) for 0 <= d < 2^31: the nearest integer, a tie going up.   *)
(* Math.round(NaN) is NaN, here -1.                                        *)
MathRound(d) ==
    IF d = NaN THEN -1
    ELSE IF d = DoubleZero THEN 0
    ELSE LET whole == 53 + d.e
         IN IF whole < 0 THEN 0
            ELSE NatOf(SubSeq(d.m, 1, whole)) + d.m[whole + 1]

-----------------------------------------------------------------------------
(* Text.                                                                   *)

(* Text is kept as a string; Chars(text) is the sequence of its characters, *)
(* for the code that looks into it (trim(), the regular expression,        *)
(* parseFloat).                                                            *)
CharTable ==
    ("" :> <<>>) @@
    (" " :> <<" ">>) @@
    ("Zed" :> <<"Z", "e", "d">>) @@
    ("z@y" :> <<"z", "@", "y">>) @@
    ("z@y.z" :> <<"z", "@", "y", ".", "z">>) @@
    ("a z@y.z " :> <<"a", " ", "z", "@", "y", ".", "z", " ">>) @@
    ("Deal" :> <<"D", "e", "a", "l">>) @@
    ("abc" :> <<"a", "b", "c">>) @@
    ("-5" :> <<"-", "5">>) @@
    ("0" :> <<"0">>) @@
    ("7" :> <<"7">>) @@
    ("7x" :> <<"7", "x">>) @@
    ("a@x.io" :> <<"a", "@", "x", ".", "i", "o">>) @@
    ("b@x.io" :> <<"b", "@", "x", ".", "i", "o">>) @@
    ("secret" :> <<"s", "e", "c", "r", "e", "t">>) @@
    ("12345" :> <<"1", "2", "3", "4", "5">>) @@
    ("Acme Corp" :> <<"A", "c", "m", "e", " ", "C", "o", "r", "p">>) @@
    ("contact@acme.com" :> <<"c", "o", "n", "t", "a", "c", "t", "@", "a", "c", "m",
       "e", ".", "c", "o", "m">>) @@
    ("TechStart Inc" :> <<"T", "e", "c", "h", "S", "t", "a", "r", "t", " ", "I",
       "n", "c">>) @@
    ("hello@techstart.com" :> <<"h", "e", "l", "l", "o", "@", "t", "e", "c", "h", "s",
       "t", "a", "r", "t", ".", "c", "o", "m">>) @@
    ("Global Solutions" :> <<"G", "l", "o", "b", "a", "l", " ", "S", "o", "l", "u",
       "t", "i", "o", "n", "s">>) @@
    ("info@globalsolutions.com" :> <<"i", "n", "f", "o", "@", "g", "l", "o", "b", "a", "l",
       "s", "o", "l", "u", "t", "i", "o", "n", "s", ".",
       "c", "o", "m">>) @@
    ("Enterprise Software License" :> <<"E", "n", "t", "e", "r", "p", "r", "i", "s", "e", " ",
       "S", "o", "f", "t", "w", "a", "r", "e", " ", "L",
       "i", "c", "e", "n", "s", "e">>) @@
    ("Consulting Services" :> <<"C", "o", "n", "s", "u", "l", "t", "i", "n", "g", " ",
       "S", "e", "r", "v", "i", "c", "e", "s">>) @@
    ("Cloud Migration" :> <<"C", "l", "o", "u", "d", " ", "M", "i", "g", "r", "a",
       "t", "i", "o", "n">>) @@
    ("Security Audit" :> <<"S", "e", "c", "u", "r", "i", "t", "y", " ", "A", "u",
       "d", "i", "t">>)

Chars(text) == CharTable[text]

IsSpace(ch) == ch \in {" ", "\t", "\n"}

(* String.prototype.trim(): drop leading and trailing white space.         *)
RECURSIVE TrimLeft(_)
TrimLeft(s) ==
    IF s = <<>> THEN <<>>
    ELSE IF IsSpace(Head(s)) THEN TrimLeft(Tail(s)) ELSE s

RECURSIVE TrimRight(_)
TrimRight(s) ==
    IF s = <<>> THEN <<>>
    ELSE IF IsSpace(s[Len(s)]) THEN TrimRight(SubSeq(s, 1, Len(s) - 1)) ELSE s

Trim(s) == TrimRight(TrimLeft(s))

(* /\S+@\S+\.\S+/.test(s): an unanchored search.  MatchFrom(s, i, st) runs *)
(* the pattern from position i in pattern state st:                        *)
(*   1: inside the first \S+ (at least one character consumed)             *)
(*   2: "@" consumed, the second \S+ not yet started                       *)
(*   3: inside the second \S+                                              *)
(*   4: "\." consumed, the third \S+ not yet started                       *)
(* and backtracks over the choices of where each \S+ ends.                 *)
RECURSIVE MatchFrom(_, _, _)
MatchFrom(s, i, st) ==
    IF i > Len(s) THEN FALSE
    ELSE LET ch == s[i] IN
         CASE st = 1 -> \/ (ch = "@" /\ MatchFrom(s, i + 1, 2))
                        \/ (~IsSpace(ch) /\ MatchFrom(s, i + 1, 1))
           [] st = 2 -> ~IsSpace(ch) /\ MatchFrom(s, i + 1, 3)
           [] st = 3 -> \/ (ch = "." /\ MatchFrom(s, i + 1, 4))
                        \/ (~IsSpace(ch) /\ MatchFrom(s, i + 1, 3))
           [] OTHER  -> ~IsSpace(ch)

EmailRegexTest(s) ==
    \E i \in 1..Len(s) : ~IsSpace(s[i]) /\ MatchFrom(s, i + 1, 1)

(* String(n) for a non-negative integer n.                                 *)
Digit(d) == <<"0", "1", "2", "3", "4", "5", "6", "7", "8", "9">>[d + 1]

RECURSIVE StringOf(_)
StringOf(n) == IF n < 10 THEN Digit(n) ELSE StringOf(n \div 10) \o Digit(n % 10)

(* An ISO timestamp of 2024 as a number that orders like the timestamp.    *)
Stamp(month, day, hour, minute) == ((month * 100 + day) * 100 + hour) * 100 + minute

(* The first reading of new Date(): later than every mock timestamp.       *)
ClockStart == Stamp(12, 31, 0, 0)

-----------------------------------------------------------------------------
(* The backend behind apiFetch, which is not part of this repository: the  *)
(* accounts it knows, and the responses it can give.                       *)

AnnEmail == "a@x.io"
BobEmail == "b@x.io"
Password == "secret"

Directory ==
    { [id |-> "u1", name |-> "Ann", email |-> AnnEmail, role |-> "Admin"],
      [id |-> "u2", name |-> "Bob", email |-> BobEmail, role |-> "User"] }

LoginEmails == {a.email : a \in Directory}

AccountOf(email) == CHOOSE a \in Directory : a.email = email

(* data.token of the n-th successful /auth/login response.                 *)
TokenFor(account, n) == "jwt." \o account.id \o "." \o StringOf(n)

-----------------------------------------------------------------------------
(* Web storage and the helpers of AuthContext.                             *)

EmptyStorage == [crm_token |-> NULL, crm_user |-> NULL]

SetItem(storage, key, value) == [storage EXCEPT ![key] = Some(value)]
RemoveItem(storage, key) == [storage EXCEPT ![key] = NULL]

(* JSON.stringify / JSON.parse of a User: the stored text is not the       *)
(* object, it is a string that parses back to an equal object.             *)
JSONStringify(obj) == <<"json", obj>>
JSONParse(str) == str[2]

(* a || b on nullable strings: a when it is neither null nor "".           *)
OrElse(a, b) == IF IsNull(a) \/ Val(a) = "" THEN b ELSE a
(* the same for the stored user, a JSON text that is never "".             *)
OrElseJSON(a, b) == IF IsNull(a) THEN b ELSE a

(* readPersistedAuth(): localStorage is read before sessionStorage.        *)
readPersistedAuth ==
    LET t == OrElse(localStorage.crm_token, sessionStorage.crm_token)
        userStr == OrElseJSON(localStorage.crm_user, sessionStorage.crm_user)
    IN [token |-> t,
        user |-> IF IsNull(userStr) THEN NULL ELSE Some(JSONParse(Val(userStr)))]

(* The User object that login and register build from data.user.           *)
UserData(account, createdAt) ==
    [_id |-> account.id, name |-> account.name, email |-> account.email,
     role |-> account.role, createdAt |-> createdAt]

(* persist that never looks at remember: localStorage always.              *)
persist_AlwaysLocal(remember, stores, key, value) ==
    [stores EXCEPT !.local = SetItem(stores.local, key, value)]

(* persist(remember, key, value) on the pair of storages.                  *)
persist(remember, stores, key, value) ==
    IF remember
    THEN [stores EXCEPT !.local = SetItem(stores.local, key, value)]
    ELSE [stores EXCEPT !.session = SetItem(stores.session, key, value)]

Stores == [local |-> localStorage, session |-> sessionStorage]

-----------------------------------------------------------------------------
(* CRMContext: the mock data.                                              *)

mockCustomers ==
    << [_id |-> "1", name |-> "Acme Corp",
        email |-> "contact@acme.com",
        phone |-> "+1-555-0123", company |-> "Acme Corp", ownerId |-> "1",
        createdAt |-> Stamp(1, 15, 10, 30)],
       [_id |-> "2", name |-> "TechStart Inc",
        email |-> "hello@techstart.com",
        phone |-> "+1-555-0456", company |-> "TechStart Inc", ownerId |-> "1",
        createdAt |-> Stamp(1, 20, 14, 20)],
       [_id |-> "3", name |-> "Global Solutions",
        email |-> "info@globalsolutions.com",
        phone |-> "+1-555-0789", company |-> "Global Solutions Ltd", ownerId |-> "1",
        createdAt |-> Stamp(2, 5, 9, 15)] >>

mockLeads ==
    << [_id |-> "1", customerId |-> "1",
        title |-> "Enterprise Software License",
        description |-> "Annual software license for 100 users",
        status |-> "Contacted", value |-> 50000, createdAt |-> Stamp(1, 16, 11, 0)],
       [_id |-> "2", customerId |-> "1",
        title |-> "Consulting Services",
        description |-> "Implementation consulting for Q2",
        status |-> "New", value |-> 25000, createdAt |-> Stamp(1, 18, 16, 30)],
       [_id |-> "3", customerId |-> "2",
        title |-> "Cloud Migration",
        description |-> "Complete cloud infrastructure migration",
        status |-> "Converted", value |-> 75000, createdAt |-> Stamp(1, 21, 13, 45)],
       [_id |-> "4", customerId |-> "3",
        title |-> "Security Audit",
        description |-> "Comprehensive security assessment",
        status |-> "Lost", value |-> 15000, createdAt |-> Stamp(2, 6, 10, 20)] >>

(* The options with one that the Lead type does not have.                 *)
leadStatuses_WithArchived == {"New", "Contacted", "Converted", "Lost", "Archived"}

(* LeadModal: the options of the status <Select>.                          *)
leadStatuses == {"New", "Contacted", "Converted", "Lost"}

(* The effect without its two setters of the mock data.                    *)
UserEffect_NoLoad(newUser) ==
    /\ customers' = IF IsNull(newUser) THEN <<>> ELSE customers
    /\ leads' = IF IsNull(newUser) THEN <<>> ELSE leads
    /\ leadsIsMock' = FALSE

(* The effect of CRMProvider on [user]: it runs when the user object       *)
(* changes, and loads the mock data or empties the store.  setLeads is     *)
(* given the module-level array itself, not a copy of it.                  *)
UserEffect(newUser) ==
    /\ customers' = IF IsNull(newUser) THEN <<>> ELSE mockCustomers
    /\ leads' = IF IsNull(newUser) THEN <<>> ELSE mockLeadsArr
    /\ leadsIsMock' = ~IsNull(newUser)

-----------------------------------------------------------------------------
(* The state after construction: the useState initial values of            *)
(* AuthProvider and CRMProvider, in a browser whose storages are empty.    *)

Init ==
    /\ mounted = FALSE
    /\ user = NULL
    /\ token = NULL
    /\ authLoading = TRUE
    /\ authReq = NULL
    /\ localStorage = EmptyStorage
    /\ sessionStorage = EmptyStorage
    /\ issued = 0
    /\ customers = <<>>
    /\ leads = <<>>
    /\ loading = FALSE
    /\ pending = <<>>
    /\ modal = "none"
    /\ opsStarted = 0
    /\ now = ClockStart
    /\ mockLeadsArr = mockLeads
    /\ leadsIsMock = FALSE
    /\ last = [op |-> "init"]

-----------------------------------------------------------------------------
(* AuthContext.                                                            *)

(* The mount effect of AuthProvider, followed by the effect of CRMProvider *)
(* on the user it restored.                                                *)
MountEffect ==
    /\ ~mounted
    /\ LET p == readPersistedAuth
           restore == ~IsNull(p.token) /\ ~IsNull(p.user)
       IN /\ token' = IF restore THEN p.token ELSE token
          /\ user' = IF restore THEN p.user ELSE user
    /\ UserEffect(user')
    /\ authLoading' = FALSE
    /\ mounted' = TRUE
    /\ last' = [op |-> "mount"]
    /\ UNCHANGED <<authReq, localStorage, sessionStorage, issued, loading,
                   pending, modal, opsStarted, now, mockLeadsArr>>

(* A page reload: every component is constructed again, the calls in       *)
(* flight are dropped with the page, both storages survive.                *)
Reload ==
    /\ mounted
    /\ mounted' = FALSE
    /\ user' = NULL
    /\ token' = NULL
    /\ authLoading' = TRUE
    /\ authReq' = NULL
    /\ customers' = <<>>
    /\ leads' = <<>>
    /\ loading' = FALSE
    /\ pending' = <<>>
    /\ modal' = "none"
    /\ mockLeadsArr' = mockLeads
    /\ leadsIsMock' = FALSE
    /\ last' = [op |-> "reload"]
    /\ UNCHANGED <<localStorage, sessionStorage, issued, opsStarted, now>>

(* login(email, password, rememberMe), up to the await of apiFetch.  The   *)
(* Login page renders its form only while user is null, and its submit     *)
(* button is disabled while loading.                                       *)
LoginStart(email, password, rememberMe) ==
    /\ mounted
    /\ IsNull(user)
    /\ ~authLoading
    /\ issued < MaxLogins
    /\ authLoading' = TRUE
    /\ authReq' = Some([kind |-> "login", phase |-> "login", email |-> email,
                        password |-> password, remember |-> rememberMe])
    /\ last' = [op |-> "loginStart"]
    /\ UNCHANGED <<mounted, user, token, localStorage, sessionStorage, issued,
                   customers, leads, loading, pending, modal, opsStarted, now,
                   mockLeadsArr, leadsIsMock>>

(* login: /auth/login answered with { token, user }, which the backend     *)
(* does for the credentials of an account it knows.                        *)
LoginOk ==
    /\ ~IsNull(authReq)
    /\ Val(authReq).kind = "login"
    /\ Val(authReq).email \in LoginEmails
    /\ Val(authReq).password = Password
    /\ LET req == Val(authReq)
           account == AccountOf(req.email)
           userData == UserData(account, now)
           dataToken == TokenFor(account, issued + 1)
           st1 == persist(req.remember, Stores, "crm_token", dataToken)
           st2 == persist(req.remember, st1, "crm_user", JSONStringify(userData))
       IN /\ user' = Some(userData)
          /\ token' = Some(dataToken)
          /\ localStorage' = st2.local
          /\ sessionStorage' = st2.session
          /\ last' = [op |-> "loginOk", remember |-> req.remember]
    /\ UserEffect(user')
    /\ issued' = issued + 1
    /\ now' = now + 1
    /\ authLoading' = FALSE
    /\ authReq' = NULL
    /\ UNCHANGED <<mounted, loading, pending, modal, opsStarted, mockLeadsArr>>

(* login whose failure path has no finally block.                          *)
LoginFail_NoFinally ==
    /\ ~IsNull(authReq)
    /\ Val(authReq).kind = "login"
    /\ authLoading' = authLoading
    /\ authReq' = NULL
    /\ last' = [op |-> "loginFail", rethrown |-> TRUE]
    /\ UNCHANGED <<mounted, user, token, localStorage, sessionStorage, issued,
                   customers, leads, loading, pending, modal, opsStarted, now,
                   mockLeadsArr, leadsIsMock>>

(* login: apiFetch throws (network error, or a response that is not ok);   *)
(* the catch block toasts and rethrows, finally clears loading.            *)
LoginFail ==
    /\ ~IsNull(authReq)
    /\ Val(authReq).kind = "login"
    /\ authLoading' = FALSE
    /\ authReq' = NULL
    /\ last' = [op |-> "loginFail", rethrown |-> TRUE]
    /\ UNCHANGED <<mounted, user, token, localStorage, sessionStorage, issued,
                   customers, leads, loading, pending, modal, opsStarted, now,
                   mockLeadsArr, leadsIsMock>>

(* register(name, email, password), up to the await of /auth/register.     *)
RegisterStart(email, password) ==
    /\ mounted
    /\ IsNull(user)
    /\ ~authLoading
    /\ issued < MaxLogins
    /\ authLoading' = TRUE
    /\ authReq' = Some([kind |-> "register", phase |-> "register", email |-> email,
                        password |-> password, remember |-> TRUE])
    /\ last' = [op |-> "registerStart"]
    /\ UNCHANGED <<mounted, user, token, localStorage, sessionStorage, issued,
                   customers, leads, loading, pending, modal, opsStarted, now,
                   mockLeadsArr, leadsIsMock>>

(* register: /auth/register answered ok; the auto-login request is sent.   *)
RegisterAccepted ==
    /\ ~IsNull(authReq)
    /\ Val(authReq).kind = "register"
    /\ Val(authReq).phase = "register"
    /\ authReq' = Some([Val(authReq) EXCEPT !.phase = "login"])
    /\ last' = [op |-> "registerAccepted"]
    /\ UNCHANGED <<mounted, user, token, authLoading, localStorage, sessionStorage,
                   issued, customers, leads, loading, pending, modal, opsStarted,
                   now, mockLeadsArr, leadsIsMock>>

(* register without its two localStorage.setItem calls.                    *)
RegisterOk_NoPersist ==
    /\ ~IsNull(authReq)
    /\ Val(authReq).kind = "register"
    /\ Val(authReq).phase = "login"
    /\ LET req == Val(authReq)
           account == AccountOf(req.email)
           userData == UserData(account, now)
           dataToken == TokenFor(account, issued + 1)
       IN /\ user' = Some(userData)
          /\ token' = Some(dataToken)
          /\ localStorage' = localStorage
          /\ sessionStorage' = sessionStorage
          /\ last' = [op |-> "registerOk"]
    /\ UserEffect(user')
    /\ issued' = issued + 1
    /\ now' = now + 1
    /\ authLoading' = FALSE
    /\ authReq' = NULL
    /\ UNCHANGED <<mounted, loading, pending, modal, opsStarted, mockLeadsArr>>

(* register: the auto-login answered with { token, user }; both keys go to *)
(* localStorage.                                                           *)
RegisterOk ==
    /\ ~IsNull(authReq)
    /\ Val(authReq).kind = "register"
    /\ Val(authReq).phase = "login"
    /\ LET req == Val(authReq)
           account == AccountOf(req.email)
           userData == UserData(account, now)
           dataToken == TokenFor(account, issued + 1)
       IN /\ user' = Some(userData)
          /\ token' = Some(dataToken)
          /\ localStorage' =
                 SetItem(SetItem(localStorage, "crm_token", dataToken),
                         "crm_user", JSONStringify(userData))
          /\ sessionStorage' = sessionStorage
          /\ last' = [op |-> "registerOk"]
    /\ UserEffect(user')
    /\ issued' = issued + 1
    /\ now' = now + 1
    /\ authLoading' = FALSE
    /\ authReq' = NULL
    /\ UNCHANGED <<mounted, loading, pending, modal, opsStarted, mockLeadsArr>>

(* register: either request throws; the catch block toasts and rethrows.   *)
RegisterFail ==
    /\ ~IsNull(authReq)
    /\ Val(authReq).kind = "register"
    /\ authLoading' = FALSE
    /\ authReq' = NULL
    /\ last' = [op |-> "registerFail", rethrown |-> TRUE]
    /\ UNCHANGED <<mounted, user, token, localStorage, sessionStorage, issued,
                   customers, leads, loading, pending, modal, opsStarted, now,
                   mockLeadsArr, leadsIsMock>>

(* A mutation in flight whose form was unmounted: its onClose() no longer  *)
(* reaches a mounted dialog.                                               *)
Detach(m) == [m EXCEPT !.closes = FALSE]

(* logout without its two removeItem('crm_user') calls.                     *)
logout_KeepsUserKey ==
    /\ mounted
    /\ ~IsNull(user)
    /\ user' = NULL
    /\ token' = NULL
    /\ localStorage' = RemoveItem(localStorage, "crm_token")
    /\ sessionStorage' = RemoveItem(sessionStorage, "crm_token")
    /\ UserEffect(user')
    /\ modal' = "none"
    /\ pending' = [i \in 1..Len(pending) |-> Detach(pending[i])]
    /\ last' = [op |-> "logout"]
    /\ UNCHANGED <<mounted, authLoading, authReq, issued, loading, opsStarted, now,
                   mockLeadsArr>>

(* logout without its two sessionStorage.removeItem calls.                 *)
logout_KeepsSession ==
    /\ mounted
    /\ ~IsNull(user)
    /\ user' = NULL
    /\ token' = NULL
    /\ localStorage' = RemoveItem(RemoveItem(localStorage, "crm_token"), "crm_user")
    /\ sessionStorage' = sessionStorage
    /\ UserEffect(user')
    /\ modal' = "none"
    /\ pending' = [i \in 1..Len(pending) |-> Detach(pending[i])]
    /\ last' = [op |-> "logout"]
    /\ UNCHANGED <<mounted, authLoading, authReq, issued, loading, opsStarted, now,
                   mockLeadsArr>>

(* logout(), from the navigation bar of a protected page; the effect of    *)
(* CRMProvider then empties the store, the route guard unmounts the page   *)
(* and its dialogs.  The mutations in flight go on.                        *)
logout ==
    /\ mounted
    /\ ~IsNull(user)
    /\ user' = NULL
    /\ token' = NULL
    /\ localStorage' = RemoveItem(RemoveItem(localStorage, "crm_token"), "crm_user")
    /\ sessionStorage' = RemoveItem(RemoveItem(sessionStorage, "crm_token"), "crm_user")
    /\ UserEffect(user')
    /\ modal' = "none"
    /\ pending' = [i \in 1..Len(pending) |-> Detach(pending[i])]
    /\ last' = [op |-> "logout"]
    /\ UNCHANGED <<mounted, authLoading, authReq, issued, loading, opsStarted, now,
                   mockLeadsArr>>

(* login(email, password, true) in another tab of the same browser, one    *)
(* that was opened while no session was stored and still shows its login   *)
(* form.  The tabs share localStorage; nothing tells this tab of the       *)
(* write, as AuthProvider listens to no storage event.                     *)
OtherTabLogin(email) ==
    /\ issued < MaxLogins
    /\ LET account == AccountOf(email)
           userData == UserData(account, now)
           dataToken == TokenFor(account, issued + 1)
           st1 == persist(TRUE, Stores, "crm_token", dataToken)
           st2 == persist(TRUE, st1, "crm_user", JSONStringify(userData))
       IN /\ localStorage' = st2.local
          /\ sessionStorage' = st2.session
    /\ issued' = issued + 1
    /\ now' = now + 1
    /\ last' = [op |-> "otherTabLogin"]
    /\ UNCHANGED <<mounted, user, token, authLoading, authReq, customers, leads,
                   loading, pending, modal, opsStarted, mockLeadsArr, leadsIsMock>>

(* Login: what the page renders for the user u when location.state.from    *)
(* holds the pathname from (null when no route guard sent the visitor).    *)
LoginPage_NoGuard(u, from) == [element |-> "form"]

LoginPage(u, from) ==
    IF ~IsNull(u)
    THEN [element |-> "Navigate", to |-> Val(OrElse(from, Some("/dashboard"))),
          replace |-> TRUE]
    ELSE [element |-> "form"]

(* The pathnames a route guard can record: those of the protected routes.  *)
Froms == {NULL, Some("/customers"), Some("/profile")}

(* A render of the Login page.                                             *)
RenderLogin(from) ==
    /\ mounted
    /\ last' = [op |-> "renderLogin", from |-> from, view |-> LoginPage(user, from)]
    /\ UNCHANGED <<mounted, user, token, authLoading, authReq, localStorage,
                   sessionStorage, issued, customers, leads, loading, pending,
                   modal, opsStarted, now, mockLeadsArr, leadsIsMock>>

(* validateForm without the test of the password's length.                 *)
LoginFormErrors_NoLength(formData) ==
    (IF formData.email = "" THEN {"email"}
     ELSE IF ~EmailRegexTest(Chars(formData.email)) THEN {"email"} ELSE {})
    \cup (IF formData.password = "" THEN {"password"} ELSE {})

(* Login.validateForm: the keys of newErrors.  The email is not trimmed.   *)
LoginFormErrors(formData) ==
    (IF formData.email = "" THEN {"email"}
     ELSE IF ~EmailRegexTest(Chars(formData.email)) THEN {"email"} ELSE {})
    \cup (IF formData.password = "" THEN {"password"}
          ELSE IF Len(Chars(formData.password)) < 6 THEN {"password"} ELSE {})

(* Login.handleSubmit: the form is on the page while user is null, and its *)
(* submit button is disabled while loading.                                *)
SubmitLoginForm(email, password, rememberMe) ==
    LET formData == [email |-> email, password |-> password, rememberMe |-> rememberMe]
    IN IF LoginFormErrors(formData) = {}
       THEN LoginStart(email, password, rememberMe)
       ELSE /\ mounted
            /\ IsNull(user)
            /\ ~authLoading
            /\ last' = [op |-> "loginRejected", form |-> formData,
                        errors |-> LoginFormErrors(formData)]
            /\ UNCHANGED <<mounted, user, token, authLoading, authReq, localStorage,
                           sessionStorage, issued, customers, leads, loading,
                           pending, modal, opsStarted, now, mockLeadsArr,
                           leadsIsMock>>

(* Sign-in, sign-out and page loads, with every way to sign in.           *)
AuthNext ==
    \/ MountEffect
    \/ Reload
    \/ \E e \in LoginEmails, r \in BOOLEAN : LoginStart(e, Password, r)
    \/ LoginOk
    \/ LoginFail
    \/ \E e \in LoginEmails : RegisterStart(e, Password)
    \/ RegisterAccepted
    \/ RegisterOk
    \/ RegisterFail
    \/ logout

(* The same with the login form alone, "remember me" left unchecked.       *)
SessionNext ==
    \/ MountEffect
    \/ Reload
    \/ \E e \in LoginEmails : LoginStart(e, Password, FALSE)
    \/ LoginOk
    \/ LoginFail
    \/ logout

-----------------------------------------------------------------------------
(* The forms: what the user can type or pick.                              *)

NameEntries == {" ", "Zed"}

EmailEntries == {"z@y", "z@y.z", "a z@y.z "}

TitleEntries == {" ", "Deal"}

(* What is typed into the value <input type="number">.                     *)
ValueEntries == {"", "abc", "-5", "0", "7", "7x"}

(* A form field: its initial content, or what the user entered (nullable). *)
Field(initial, entered) == IF IsNull(entered) THEN initial ELSE Val(entered)

DigitChars == {"0", "1", "2", "3", "4", "5", "6", "7", "8", "9"}
DigitValue(ch) == CHOOSE d \in 0..9 : Digit(d) = ch

RECURSIVE DigitsValue(_, _)
DigitsValue(s, acc) ==
    IF s = <<>> \/ Head(s) \notin DigitChars THEN acc
    ELSE DigitsValue(Tail(s), 10 * acc + DigitValue(Head(s)))

(* The value an <input type="number"> reports for the text in it: the text *)
(* when it is a valid number (here: an optional "-" and digits), else "".  *)
IsNumberText(s) ==
    LET body == IF s # <<>> /\ Head(s) = "-" THEN Tail(s) ELSE s
    IN body # <<>> /\ \A i \in 1..Len(body) : body[i] \in DigitChars

NumberInputValue(text) == IF IsNumberText(text) THEN text ELSE <<>>

(* parseFloat(s) on integer text: NaN is NULL.  Leading white space is     *)
(* skipped, then an optional sign and the longest run of digits are read.  *)
parseFloat(s) ==
    LET t == TrimLeft(s)
        neg == t # <<>> /\ Head(t) = "-"
        body == IF t # <<>> /\ Head(t) \in {"-", "+"} THEN Tail(t) ELSE t
    IN IF body = <<>> \/ Head(body) \notin DigitChars THEN NULL
       ELSE Some(IF neg THEN 0 - DigitsValue(body, 0) ELSE DigitsValue(body, 0))

(* onChange of the value input: parseFloat(e.target.value) || 0.           *)
OnChangeValue(text) ==
    LET n == parseFloat(NumberInputValue(Chars(text)))
    IN IF IsNull(n) \/ Val(n) = 0 THEN 0 ELSE Val(n)

(* Array.prototype.find by _id (nullable).                                 *)
FindById(s, id) ==
    IF \E i \in 1..Len(s) : s[i]._id = id
    THEN Some(s[CHOOSE i \in 1..Len(s) :
                   s[i]._id = id /\ \A j \in 1..(i - 1) : s[j]._id # id])
    ELSE NULL

(* CustomerModal: the form as the effect on [isOpen, customer] fills it.   *)
CustomerFormInitial(customerId) ==
    LET c == IF IsNull(customerId) THEN NULL ELSE FindById(customers, Val(customerId))
    IN IF IsNull(c)
       THEN [name |-> "", email |-> "", phone |-> "", company |-> ""]
       ELSE [name |-> Val(c).name, email |-> Val(c).email,
             phone |-> Val(c).phone, company |-> Val(c).company]

(* validateForm without the test of the email against the pattern.        *)
CustomerFormErrors_NoPattern(formData) ==
    (IF Trim(Chars(formData.name)) = <<>> THEN {"name"} ELSE {})
    \cup (IF Trim(Chars(formData.email)) = <<>> THEN {"email"} ELSE {})

(* CustomerModal.validateForm: the keys of newErrors.                      *)
CustomerFormErrors(formData) ==
    (IF Trim(Chars(formData.name)) = <<>> THEN {"name"} ELSE {})
    \cup (IF Trim(Chars(formData.email)) = <<>> THEN {"email"}
          ELSE IF ~EmailRegexTest(Chars(formData.email)) THEN {"email"} ELSE {})

(* LeadModal: the form as the effect on [isOpen, lead] fills it.           *)
LeadFormInitial(leadId) ==
    LET l == IF IsNull(leadId) THEN NULL ELSE FindById(leads, Val(leadId))
    IN IF IsNull(l)
       THEN [title |-> "", description |-> "", status |-> "New", value |-> 0]
       ELSE [title |-> Val(l).title, description |-> Val(l).description,
             status |-> Val(l).status, value |-> Val(l).value]

(* validateForm without the test of the value.                            *)
LeadFormErrors_NoValueTest(formData) ==
    (IF Trim(Chars(formData.title)) = <<>> THEN {"title"} ELSE {})
    \cup (IF formData.status = "" THEN {"status"} ELSE {})

(* LeadModal.validateForm: the keys of newErrors.                          *)
LeadFormErrors(formData) ==
    (IF Trim(Chars(formData.title)) = <<>> THEN {"title"} ELSE {})
    \cup (IF formData.status = "" THEN {"status"} ELSE {})
    \cup (IF formData.value < 0 THEN {"value"} ELSE {})

-----------------------------------------------------------------------------
(* CRMContext: the store.                                                  *)

(* ProtectedRoute: the pages that show the store render for a user only.   *)
(* App wraps every such page in the component; the component itself is not *)
(* among the sources, and the guard follows its name and its use.          *)
ProtectedRoute == mounted /\ ~IsNull(user)

CanStart == opsStarted < MaxOps

(* The part every mutation runs before its await: setLoading(true).        *)
StartMutation(m) ==
    /\ pending' = Append(pending, m)
    /\ loading' = TRUE
    /\ opsStarted' = opsStarted + 1

CustomerIds == {customers[i]._id : i \in 1..Len(customers)}
LeadIds == {leads[i]._id : i \in 1..Len(leads)}

(* Open a form dialog: Add/Edit Customer, Add/Edit Lead.                   *)
OpenModal(which) ==
    /\ ProtectedRoute
    /\ modal = "none"
    /\ modal' = which
    /\ last' = [op |-> "step"]
    /\ UNCHANGED <<mounted, user, token, authLoading, authReq, localStorage,
                   sessionStorage, issued, customers, leads, loading, pending,
                   opsStarted, now, mockLeadsArr, leadsIsMock>>

(* Cancel, or onOpenChange of the dialog.                                  *)
CloseModal ==
    /\ modal # "none"
    /\ modal' = "none"
    /\ last' = [op |-> "step"]
    /\ UNCHANGED <<mounted, user, token, authLoading, authReq, localStorage,
                   sessionStorage, issued, customers, leads, loading, pending,
                   opsStarted, now, mockLeadsArr, leadsIsMock>>

(* CustomerModal.handleSubmit.  customerId is the dialog's prop (null: add *)
(* a customer); the submit button is disabled while loading.  addCustomer  *)
(* reads customers.length and user when it is called; its early return on  *)
(* a null user is never taken, the dialog being part of a protected page.  *)
SubmitCustomerFormWithin(budget, customerId, nameEntry, emailEntry) ==
    /\ ProtectedRoute
    /\ modal = "customer"
    /\ ~loading
    /\ LET init == CustomerFormInitial(customerId)
           formData == [name |-> Field(init.name, nameEntry),
                        email |-> Field(init.email, emailEntry),
                        phone |-> init.phone, company |-> init.company]
           valid == CustomerFormErrors(formData) = {}
       IN /\ valid => opsStarted < budget
          /\ last' = [op |-> "submitCustomer", form |-> formData, started |-> valid]
          /\ IF ~valid
             THEN UNCHANGED <<pending, loading, opsStarted>>
             ELSE IF IsNull(customerId)
             THEN StartMutation([op |-> "addCustomer", data |-> formData,
                                 len |-> Len(customers), owner |-> Val(user)._id,
                                 closes |-> TRUE])
             ELSE StartMutation([op |-> "updateCustomer", id |-> Val(customerId),
                                 data |-> formData, closes |-> TRUE])
    /\ UNCHANGED <<mounted, user, token, authLoading, authReq, localStorage,
                   sessionStorage, issued, customers, leads, modal, now,
                   mockLeadsArr, leadsIsMock>>

SubmitCustomerForm(customerId, nameEntry, emailEntry) ==
    SubmitCustomerFormWithin(MaxOps, customerId, nameEntry, emailEntry)

(* LeadModal.handleSubmit.  customerId is the customer of the detail page, *)
(* leadId the lead being edited (null: add a lead).                        *)
SubmitLeadForm(customerId, leadId, titleEntry, statusEntry, valueEntry) ==
    /\ ProtectedRoute
    /\ modal = "lead"
    /\ ~loading
    /\ LET init == LeadFormInitial(leadId)
           formData == [title |-> Field(init.title, titleEntry),
                        description |-> init.description,
                        status |-> Field(init.status, statusEntry),
                        value |-> IF IsNull(valueEntry) THEN init.value
                                  ELSE OnChangeValue(Val(valueEntry))]
           valid == LeadFormErrors(formData) = {}
       IN /\ valid => CanStart
          /\ last' = [op |-> "submitLead", form |-> formData, started |-> valid,
                       entry |-> valueEntry]
          /\ IF ~valid
             THEN UNCHANGED <<pending, loading, opsStarted>>
             ELSE IF IsNull(leadId)
             THEN StartMutation([op |-> "addLead",
                                 data |-> Spread(formData, [customerId |-> customerId]),
                                 len |-> Len(leads), closes |-> TRUE])
             ELSE StartMutation([op |-> "updateLead", id |-> Val(leadId),
                                 data |-> formData, closes |-> TRUE])
    /\ UNCHANGED <<mounted, user, token, authLoading, authReq, localStorage,
                   sessionStorage, issued, customers, leads, modal, now,
                   mockLeadsArr, leadsIsMock>>

(* Customers.handleDelete, from the confirmation dialog of a listed        *)
(* customer: deleteCustomer(id) up to its await.                           *)
DeleteCustomerStart(id) ==
    /\ ProtectedRoute
    /\ modal = "none"
    /\ CanStart
    /\ StartMutation([op |-> "deleteCustomer", id |-> id, closes |-> FALSE])
    /\ last' = [op |-> "step"]
    /\ UNCHANGED <<mounted, user, token, authLoading, authReq, localStorage,
                   sessionStorage, issued, customers, leads, modal, now,
                   mockLeadsArr, leadsIsMock>>

(* CustomerDetail.handleDeleteLead: deleteLead(id) up to its await.        *)
DeleteLeadStart(id) ==
    /\ ProtectedRoute
    /\ modal = "none"
    /\ CanStart
    /\ StartMutation([op |-> "deleteLead", id |-> id, closes |-> FALSE])
    /\ last' = [op |-> "step"]
    /\ UNCHANGED <<mounted, user, token, authLoading, authReq, localStorage,
                   sessionStorage, issued, customers, leads, modal, now,
                   mockLeadsArr, leadsIsMock>>

(* Which dialog the onClose() of a mutation's caller closes.               *)
DialogOf(m) ==
    CASE m.op \in {"addCustomer", "updateCustomer"} -> "customer"
      [] m.op \in {"addLead", "updateLead"} -> "lead"
      [] OTHER -> "no dialog"

(* The completion without the finally block: loading stays as it is.      *)
FinishMutation_NoFinally(m) ==
    /\ pending' = Tail(pending)
    /\ loading' = loading
    /\ modal' = IF m.closes /\ modal = DialogOf(m) THEN "none" ELSE modal

(* The part every mutation runs after its await: finally setLoading(false),*)
(* then the caller's onClose().                                            *)
FinishMutation(m) ==
    /\ pending' = Tail(pending)
    /\ loading' = FALSE
    /\ modal' = IF m.closes /\ modal = DialogOf(m) THEN "none" ELSE modal

HeadIs(opName) == pending # <<>> /\ Head(pending).op = opName

(* A mutation whose body throws after the await: the catch block toasts,   *)
(* the finally block clears loading, and the caller, to which nothing is   *)
(* rethrown, goes on to onClose().  The store is not touched.              *)
MutationThrows ==
    /\ pending # <<>>
    /\ FinishMutation(Head(pending))
    /\ last' = [op |-> "mutationThrew"]
    /\ UNCHANGED <<mounted, user, token, authLoading, authReq, localStorage,
                   sessionStorage, issued, customers, leads, opsStarted, now,
                   mockLeadsArr, leadsIsMock>>

(* addCustomer after its await.                                            *)
AddCustomerDone ==
    /\ HeadIs("addCustomer")
    /\ LET m == Head(pending)
           newCustomer == Spread(m.data, [_id |-> StringOf(m.len + 1),
                                          ownerId |-> m.owner, createdAt |-> now])
       IN /\ customers' = Append(customers, newCustomer)
          /\ FinishMutation(m)
    /\ now' = now + 1
    /\ last' = [op |-> "step"]
    /\ UNCHANGED <<mounted, user, token, authLoading, authReq, localStorage,
                   sessionStorage, issued, leads, opsStarted, mockLeadsArr,
                   leadsIsMock>>

(* updateCustomer after its await.                                         *)
UpdateCustomerDone ==
    /\ HeadIs("updateCustomer")
    /\ LET m == Head(pending)
       IN /\ customers' = MapById(customers, m.id, m.data)
          /\ FinishMutation(m)
    /\ last' = [op |-> "step"]
    /\ UNCHANGED <<mounted, user, token, authLoading, authReq, localStorage,
                   sessionStorage, issued, leads, opsStarted, now, mockLeadsArr,
                   leadsIsMock>>

(* deleteCustomer without its setLeads: the leads of the customer stay.    *)
DeleteCustomerDone_KeepsLeads ==
    /\ HeadIs("deleteCustomer")
    /\ LET m == Head(pending)
       IN /\ customers' = FilterOut(customers, "_id", m.id)
          /\ leads' = leads
          /\ FinishMutation(m)
          /\ last' = [op |-> "deleteCustomer", id |-> m.id]
    /\ leadsIsMock' = leadsIsMock
    /\ UNCHANGED <<mounted, user, token, authLoading, authReq, localStorage,
                   sessionStorage, issued, opsStarted, now, mockLeadsArr>>

(* deleteCustomer after its await: the customer and its leads go.          *)
DeleteCustomerDone ==
    /\ HeadIs("deleteCustomer")
    /\ LET m == Head(pending)
       IN /\ customers' = FilterOut(customers, "_id", m.id)
          /\ leads' = FilterOut(leads, "customerId", m.id)
          /\ FinishMutation(m)
          /\ last' = [op |-> "deleteCustomer", id |-> m.id]
    /\ leadsIsMock' = FALSE
    /\ UNCHANGED <<mounted, user, token, authLoading, authReq, localStorage,
                   sessionStorage, issued, opsStarted, now, mockLeadsArr>>

(* addLead after its await.                                                *)
AddLeadDone ==
    /\ HeadIs("addLead")
    /\ LET m == Head(pending)
           newLead == Spread(m.data, [_id |-> StringOf(m.len + 1), createdAt |-> now])
       IN /\ leads' = Append(leads, newLead)
          /\ FinishMutation(m)
    /\ leadsIsMock' = FALSE
    /\ now' = now + 1
    /\ last' = [op |-> "step"]
    /\ UNCHANGED <<mounted, user, token, authLoading, authReq, localStorage,
                   sessionStorage, issued, customers, opsStarted, mockLeadsArr>>

(* updateLead after its await.                                             *)
UpdateLeadDone ==
    /\ HeadIs("updateLead")
    /\ LET m == Head(pending)
       IN /\ leads' = MapById(leads, m.id, m.data)
          /\ FinishMutation(m)
    /\ leadsIsMock' = FALSE
    /\ last' = [op |-> "step"]
    /\ UNCHANGED <<mounted, user, token, authLoading, authReq, localStorage,
                   sessionStorage, issued, customers, opsStarted, now, mockLeadsArr>>

(* deleteLead after its await.                                             *)
DeleteLeadDone ==
    /\ HeadIs("deleteLead")
    /\ LET m == Head(pending)
       IN /\ leads' = FilterOut(leads, "_id", m.id)
          /\ FinishMutation(m)
    /\ leadsIsMock' = FALSE
    /\ last' = [op |-> "step"]
    /\ UNCHANGED <<mounted, user, token, authLoading, authReq, localStorage,
                   sessionStorage, issued, customers, opsStarted, now, mockLeadsArr>>

-----------------------------------------------------------------------------
(* The dashboard.                                                          *)

(* acc[key] = amount: the earlier leads of the status are forgotten.       *)
Bump_Overwrites(acc, key, amount) ==
    [k \in (DOMAIN acc) \cup {key} |-> IF k = key THEN amount ELSE acc[k]]

(* acc[key] = (acc[key] || 0) + amount on an object used as a map.         *)
Bump(acc, key, amount) ==
    [k \in (DOMAIN acc) \cup {key} |->
        IF k = key
        THEN (IF key \in DOMAIN acc /\ acc[key] # 0 THEN acc[key] ELSE 0) + amount
        ELSE acc[k]]

EmptyObject == [k \in {} |-> 0]

(* leads.reduce((sum, lead) => sum + lead.value, 0).                      *)
ReduceValue(s) ==
    LET F[i \in 0..Len(s)] == IF i = 0 THEN 0 ELSE F[i - 1] + s[i].value
    IN F[Len(s)]

(* leads.reduce((acc, lead) => { acc[lead.status] = ...; return acc }, {}) *)
(* adding 1 (byValue false) or lead.value (byValue true).                  *)
ReduceByStatus(s, byValue) ==
    LET F[i \in 0..Len(s)] ==
            IF i = 0 THEN EmptyObject
            ELSE Bump(F[i - 1], s[i].status, IF byValue THEN s[i].value ELSE 1)
    IN F[Len(s)]

getDashboardStats ==
    [totalCustomers |-> Len(customers),
     totalLeads |-> Len(leads),
     totalValue |-> ReduceValue(leads),
     leadsByStatus |-> ReduceByStatus(leads, FALSE),
     valueByStatus |-> ReduceByStatus(leads, TRUE)]

(* Array.prototype.sort with (a, b) => time(b.createdAt) - time(a.createdAt): *)
(* a stable sort, newest first.                                            *)
RECURSIVE InsertNewestFirst(_, _)
InsertNewestFirst(sorted, x) ==
    IF sorted = <<>> THEN <<x>>
    ELSE IF Head(sorted).createdAt >= x.createdAt
         THEN <<Head(sorted)>> \o InsertNewestFirst(Tail(sorted), x)
         ELSE <<x>> \o sorted

SortNewestFirst(s) ==
    LET F[i \in 0..Len(s)] ==
            IF i = 0 THEN <<>> ELSE InsertNewestFirst(F[i - 1], s[i])
    IN F[Len(s)]

(* Array.prototype.slice(start, end) for 0 <= start <= end.                *)
Slice(s, start, end) ==
    SubSeq(s, start + 1, IF end < Len(s) THEN end ELSE Len(s))

(* The list without its slice(0, 5).                                       *)
recentLeads_NoSlice == SortNewestFirst(leads)

(* Dashboard: recentLeads = leads.sort(...).slice(0, 5).                   *)
recentLeads == Slice(SortNewestFirst(leads), 0, 5)

(* A render of the Dashboard page: it computes the statistics and sorts    *)
(* the leads array it got from the context, in place.                      *)
RenderDashboard ==
    /\ ProtectedRoute
    /\ modal = "none"
    /\ last' = [op |-> "renderDashboard", stats |-> getDashboardStats,
                recent |-> recentLeads]
    /\ leads' = SortNewestFirst(leads)
    /\ mockLeadsArr' = IF leadsIsMock THEN leads' ELSE mockLeadsArr
    /\ UNCHANGED <<mounted, user, token, authLoading, authReq, localStorage,
                   sessionStorage, issued, customers, loading, pending, modal,
                   opsStarted, now, leadsIsMock>>

(* Dashboard, the Conversion Rate card, over a store of total leads of     *)
(* which converted have the status Converted:                              *)
(* totalLeads > 0 ? Math.round((Converted || 0) / totalLeads * 100) : 0.   *)
ConversionRate(converted, total) ==
    IF total > 0 THEN MathRound(DoubleTimes(DoubleDiv(converted, total), 100))
    ELSE 0

(* CustomerDetail, conversionRate over the leads of the customer:          *)
(* totalLeads > 0 ? (convertedLeads / totalLeads) * 100 : 0, a double.     *)
CustomerConversionRate(converted, total) ==
    IF total > 0 THEN DoubleTimes(DoubleDiv(converted, total), 100)
    ELSE DoubleZero

(* A render of the two Conversion Rate cards.  The counts stand for the    *)
(* store: they are what getDashboardStats and CustomerDetail count in it.  *)
RenderConversionRate(converted, total) ==
    /\ ProtectedRoute
    /\ modal = "none"
    /\ last' = [op |-> "renderConversionRate", converted |-> converted,
                total |-> total, rate |-> ConversionRate(converted, total),
                customerRate |-> CustomerConversionRate(converted, total)]
    /\ UNCHANGED <<mounted, user, token, authLoading, authReq, localStorage,
                   sessionStorage, issued, customers, leads, loading, pending,
                   modal, opsStarted, now, mockLeadsArr, leadsIsMock>>

(* The inputs of the forms: a field is left as it was (NULL) or filled     *)
(* with one of the entries.                                                *)
Optional(S) == {NULL} \cup {Some(x) : x \in S}

LeadsOf(customerId) ==
    {leads[i]._id : i \in {j \in 1..Len(leads) : leads[j].customerId = customerId}}

(* The completions of the mutations in flight.                             *)
TimerNext ==
    \/ AddCustomerDone
    \/ UpdateCustomerDone
    \/ DeleteCustomerDone
    \/ AddLeadDone
    \/ UpdateLeadDone
    \/ DeleteLeadDone

(* The application: sessions, dialogs, the forms filled with valid data,   *)
(* deletions and the completions of the mutations.                         *)
Next ==
    \/ SessionNext
    \/ \E which \in {"customer", "lead"} : OpenModal(which)
    \/ CloseModal
    \/ /\ modal = "customer"
       /\ \E id \in Optional(CustomerIds) :
            SubmitCustomerForm(id, Some("Zed"), Some("z@y.z"))
    \/ /\ modal = "lead"
       /\ \E c \in CustomerIds :
            \E l \in Optional(LeadsOf(c)) :
              SubmitLeadForm(c, l, Some("Deal"), Some("Converted"), NULL)
    \/ \E id \in CustomerIds : DeleteCustomerStart(id)
    \/ \E id \in LeadIds : DeleteLeadStart(id)
    \/ TimerNext

Spec == Init /\ [][Next]_vars

(* Sessions in every variety, around one kind of store mutation.           *)
AuthSpecNext ==
    \/ AuthNext
    \/ \E id \in LeadIds : DeleteLeadStart(id)
    \/ DeleteLeadDone

AuthSpec == Init /\ [][AuthSpecNext]_vars

(* One user signing in.                                                    *)
SignInNext ==
    \/ MountEffect
    \/ LoginStart(AnnEmail, Password, FALSE)
    \/ LoginOk

(* The customer whose detail page the form specifications stay on, and the *)
(* customer rows whose Edit they use beside Add Customer.                  *)
DetailCustomer == "1"
EditableCustomers == {c \in CustomerIds : c = DetailCustomer}

(* The customer form with everything a user can type into it.              *)
CustomerFormNext ==
    \/ SignInNext
    \/ OpenModal("customer")
    \/ CloseModal
    \/ /\ modal = "customer"
       /\ \E id \in Optional(EditableCustomers) :
            \E n \in Optional(NameEntries), e \in Optional(EmailEntries) :
              SubmitCustomerForm(id, n, e)
    \/ AddCustomerDone
    \/ UpdateCustomerDone

CustomerFormSpec == Init /\ [][CustomerFormNext]_vars

(* The lead form with everything a user can type into it or pick, one     *)
(* field at a time: the title, the status, the value.                      *)
LeadFormNext ==
    \/ SignInNext
    \/ OpenModal("lead")
    \/ CloseModal
    \/ /\ modal = "lead"
       /\ \E l \in Optional(LeadsOf(DetailCustomer)) :
            \E t \in Optional(TitleEntries) :
              SubmitLeadForm(DetailCustomer, l, t, NULL, NULL)
    \/ /\ modal = "lead"
       /\ \E l \in Optional(LeadsOf(DetailCustomer)) :
            \E s \in leadStatuses :
              SubmitLeadForm(DetailCustomer, l, Some("Deal"), Some(s), NULL)
    \/ /\ modal = "lead"
       /\ \E l \in Optional(LeadsOf(DetailCustomer)) :
            \E v \in ValueEntries :
              SubmitLeadForm(DetailCustomer, l, Some("Deal"), NULL, Some(v))
    \/ AddLeadDone
    \/ UpdateLeadDone

LeadFormSpec == Init /\ [][LeadFormNext]_vars

(* The dashboard over stores that leads were added to, edited in and       *)
(* deleted from.                                                           *)
DashboardNext ==
    \/ SignInNext
    \/ OpenModal("lead")
    \/ /\ modal = "lead"
       /\ \E l \in Optional(LeadsOf(DetailCustomer)) :
            \E s \in {"New", "Lost"}, v \in {"0", "7"} :
              SubmitLeadForm(DetailCustomer, l, Some("Deal"), Some(s), Some(v))
    \/ \E id \in LeadIds : DeleteLeadStart(id)
    \/ AddLeadDone
    \/ UpdateLeadDone
    \/ DeleteLeadDone
    \/ RenderDashboard

DashboardSpec == Init /\ [][DashboardNext]_vars

(* Sessions of one user that follow one another, remembered or not, over   *)
(* a store that is deleted from, added to and shown on the dashboard.      *)
ResetNext ==
    \/ MountEffect
    \/ Reload
    \/ \E r \in BOOLEAN : LoginStart(AnnEmail, Password, r)
    \/ LoginOk
    \/ logout
    \/ OpenModal("customer")
    \/ /\ modal = "customer"
       /\ SubmitCustomerForm(NULL, Some("Zed"), Some("z@y.z"))
    \/ \E id \in CustomerIds : DeleteCustomerStart(id)
    \/ \E id \in LeadIds : DeleteLeadStart(id)
    \/ AddCustomerDone
    \/ DeleteCustomerDone
    \/ DeleteLeadDone
    \/ RenderDashboard

ResetSpec == Init /\ [][ResetNext]_vars

(* Customers added, leads edited and deleted, by mutations whose body may  *)
(* throw; the timer of a mutation in flight fires sooner or later, and     *)
(* then the body runs to its end or to its catch block.                    *)
Completion ==
    \/ AddCustomerDone
    \/ UpdateLeadDone
    \/ DeleteLeadDone
    \/ MutationThrows

LiveNext ==
    \/ SignInNext
    \/ logout
    \/ \E which \in {"customer", "lead"} : OpenModal(which)
    \/ /\ modal = "customer"
       /\ SubmitCustomerForm(NULL, Some("Zed"), Some("z@y.z"))
    \/ /\ modal = "lead"
       /\ \E l \in LeadsOf(DetailCustomer) :
            SubmitLeadForm(DetailCustomer, Some(l), Some("Deal"), NULL, NULL)
    \/ \E id \in LeadIds : DeleteLeadStart(id)
    \/ Completion

LiveSpec == Init /\ [][LiveNext]_vars /\ WF_vars(Completion)

(* Two tabs of one browser: this tab signs in, signs out and reloads while *)
(* another tab signs in with rememberMe.                                   *)
TabsNext ==
    \/ MountEffect
    \/ Reload
    \/ \E e \in LoginEmails, r \in BOOLEAN : LoginStart(e, Password, r)
    \/ LoginOk
    \/ logout
    \/ \E e \in LoginEmails : OtherTabLogin(e)

TabsSpec == Init /\ [][TabsNext]_vars

(* The Login page: what is typed into its form, and what it renders.       *)
LoginEmailEntries == {"", "z@y", "a z@y.z ", AnnEmail}
PasswordEntries == {"", "12345", Password}

LoginFormNext ==
    \/ MountEffect
    \/ Reload
    \/ \E e \in LoginEmailEntries, pw \in PasswordEntries, r \in BOOLEAN :
           SubmitLoginForm(e, pw, r)
    \/ LoginOk
    \/ LoginFail
    \/ logout
    \/ \E from \in Froms : RenderLogin(from)

LoginFormSpec == Init /\ [][LoginFormNext]_vars

(* A customer list that customers were deleted from and added to, and the  *)
(* edits of it and of the leads of one customer.                           *)
EditNext ==
    \/ SignInNext
    \/ \E which \in {"customer", "lead"} : OpenModal(which)
    \/ \E id \in CustomerIds : DeleteCustomerStart(id)
    \/ /\ modal = "customer"
       /\ \E id \in Optional(CustomerIds) :
            SubmitCustomerFormWithin(MaxOps + MaxEdits, id, Some("Zed"), Some("z@y.z"))
    \/ /\ modal = "lead"
       /\ \E l \in LeadsOf(DetailCustomer) :
            SubmitLeadForm(DetailCustomer, Some(l), Some("Deal"), Some("Converted"),
                           Some("7"))
    \/ AddCustomerDone
    \/ UpdateCustomerDone
    \/ DeleteCustomerDone
    \/ UpdateLeadDone

EditSpec == Init /\ [][EditNext]_vars

(* The Conversion Rate cards, first over the store as loaded and then     *)
(* over stores that grow, shrink and change by one lead at a time: a lead  *)
(* is added or deleted, or its status is edited to or from Converted.      *)
(* Past the first render the store is kept as its two counts.              *)
OneLeadApart(converted, total) ==
    IF last.op = "renderConversionRate"
    THEN /\ total - last.total \in {-1, 0, 1}
         /\ converted - last.converted \in {-1, 0, 1}
         /\ <<converted, total>> # <<last.converted, last.total>>
    ELSE /\ total = Len(leads)
         /\ converted = Cardinality({i \in 1..Len(leads) :
                                         leads[i].status = "Converted"})

RateNext ==
    \/ SignInNext
    \/ \E total \in 0..ManyLeads : \E converted \in 0..total :
           /\ OneLeadApart(converted, total)
           /\ RenderConversionRate(converted, total)

RateSpec == Init /\ [][RateNext]_vars

-----------------------------------------------------------------------------
(* Referential integrity.                                                  *)

(* C1: once a deleteCustomer(id) call has taken effect, the store holds no *)
(* customer whose _id is id and no lead whose customerId is id.            *)
C1_DeleteCascades ==
    last.op = "deleteCustomer" =>
        /\ \A i \in 1..Len(customers) : customers[i]._id # last.id
        /\ \A i \in 1..Len(leads) : leads[i].customerId # last.id

(* The first mock customer and its two leads were just deleted, while a    *)
(* lead of another customer stayed.                                        *)
C1_Witness ==
    /\ last.op = "deleteCustomer"
    /\ last.id = "1"
    /\ Len(customers) = Len(mockCustomers) - 1
    /\ Len(leads) = Len(mockLeads) - 2
    /\ \E i \in 1..Len(leads) : leads[i].customerId = "3"

(* C2: every lead belongs to exactly one customer: its customerId is the   *)
(* _id of exactly one entry of customers, whatever calls are in flight.    *)
C2_OneCustomerPerLead ==
    \A i \in 1..Len(leads) :
        Cardinality({j \in 1..Len(customers) :
                        customers[j]._id = leads[i].customerId}) = 1

(* C3: while no user is authenticated the customers and the leads of the   *)
(* store are empty, also when a mutation started before logout completes   *)
(* after it.                                                               *)
C3_NoUserNoData ==
    IsNull(user) => customers = <<>> /\ leads = <<>>

-----------------------------------------------------------------------------
(* The token lifecycle.                                                    *)

(* C4: after logout the user and the token are null and neither storage    *)
(* holds crm_token or crm_user; and a mount that finds both storages       *)
(* without the keys, as logout leaves them, starts unauthenticated.        *)
C4_LogoutClearsSession ==
    /\ last.op = "logout" =>
          /\ IsNull(user) /\ IsNull(token)
          /\ IsNull(localStorage.crm_token) /\ IsNull(localStorage.crm_user)
          /\ IsNull(sessionStorage.crm_token) /\ IsNull(sessionStorage.crm_user)
    /\ ( /\ last.op = "mount"
         /\ IsNull(localStorage.crm_token) /\ IsNull(localStorage.crm_user)
         /\ IsNull(sessionStorage.crm_token) /\ IsNull(sessionStorage.crm_user) )
       => IsNull(user) /\ IsNull(token)

(* A page was loaded after a user had logged in and out: the storages,     *)
(* written by the login, are empty and nobody is authenticated.            *)
C4_Witness ==
    /\ last.op = "mount"
    /\ issued > 0
    /\ localStorage = EmptyStorage
    /\ sessionStorage = EmptyStorage
    /\ IsNull(user)

(* C5: a successful login writes crm_token and crm_user to localStorage    *)
(* when rememberMe is true and to sessionStorage when it is false, and     *)
(* leaves the other storage as it was; a successful register writes both   *)
(* keys to localStorage.                                                   *)
C5_LoginPersistence ==
    [][ /\ (last'.op = "loginOk" /\ last'.remember) =>
              /\ ~IsNull(token') /\ localStorage'.crm_token = token'
              /\ ~IsNull(localStorage'.crm_user)
              /\ JSONParse(Val(localStorage'.crm_user)) = Val(user')
              /\ sessionStorage' = sessionStorage
        /\ (last'.op = "loginOk" /\ ~last'.remember) =>
              /\ ~IsNull(token') /\ sessionStorage'.crm_token = token'
              /\ ~IsNull(sessionStorage'.crm_user)
              /\ JSONParse(Val(sessionStorage'.crm_user)) = Val(user')
              /\ localStorage' = localStorage
        /\ last'.op = "registerOk" =>
              /\ ~IsNull(token') /\ localStorage'.crm_token = token'
              /\ ~IsNull(localStorage'.crm_user)
              /\ JSONParse(Val(localStorage'.crm_user)) = Val(user')
              /\ sessionStorage' = sessionStorage
      ]_vars

(* A login without "remember me" has just succeeded: the session storage   *)
(* holds the token, the local storage holds nothing.                       *)
C5_Witness ==
    /\ last.op = "loginOk"
    /\ ~last.remember
    /\ ~IsNull(token)
    /\ sessionStorage.crm_token = token
    /\ localStorage = EmptyStorage

-----------------------------------------------------------------------------
(* The lead form.                                                          *)

(* C6: every lead of the store has one of the four statuses New,           *)
(* Contacted, Converted, Lost, whatever the lead form added or updated.    *)
C6_LeadStatusEnumeration ==
    \A i \in 1..Len(leads) :
        leads[i].status \in {"New", "Contacted", "Converted", "Lost"}

(* The form added a lead as Lost and changed the first mock lead, which    *)
(* was Contacted, to Converted.                                            *)
C6_Witness ==
    /\ \E i \in 1..Len(leads) : leads[i]._id = "5" /\ leads[i].status = "Lost"
    /\ \E i \in 1..Len(leads) : leads[i]._id = "1" /\ leads[i].status = "Converted"

(* C7: a submission of the lead form whose value is below 0 starts no      *)
(* call, leaves the store as it was and the dialog open; a value of 0 is   *)
(* accepted when the title and the status are filled; an empty or          *)
(* non-numeric entry becomes 0; and every lead of the store has a value    *)
(* of at least 0.                                                          *)
C7_NonNegativeValue ==
    [][ /\ (last'.op = "submitLead" /\ last'.form.value < 0) =>
              /\ ~last'.started
              /\ pending' = pending /\ opsStarted' = opsStarted
              /\ customers' = customers /\ leads' = leads
              /\ modal = "lead" /\ modal' = "lead"
        /\ ( /\ last'.op = "submitLead"
             /\ last'.form.value = 0
             /\ \E k \in 1..Len(Chars(last'.form.title)) :
                    Chars(last'.form.title)[k] # " "
             /\ last'.form.status # "" )
           => last'.started /\ Len(pending') = Len(pending) + 1
        /\ (last'.op = "submitLead" /\ last'.entry \in {<<"">>, <<"abc">>, <<"7x">>})
           => last'.form.value = 0
        /\ \A i \in 1..Len(leads') : leads'[i].value >= 0
      ]_vars

(* The form was submitted with -5 typed as the value: nothing was started  *)
(* and the dialog is open, over a store that an accepted 0 went into.      *)
C7_Witness ==
    /\ last.op = "submitLead"
    /\ last.entry = <<"-5">>
    /\ last.form.value = 0 - 5
    /\ ~last.started
    /\ modal = "lead"
    /\ \E i \in 1..Len(leads) : leads[i].title = "Deal" /\ leads[i].value = 0

-----------------------------------------------------------------------------
(* The customer form.                                                      *)

(* C8: a submission of the customer form starts a call only when the name  *)
(* has a character that is not white space and the email holds the shape   *)
(* text@text.text (a run without white space, "@", such a run, ".", such a *)
(* run); a submission that starts nothing leaves the calls in flight, the  *)
(* customers, the leads and the open dialog as they were.                  *)
C8_CustomerFormValidation ==
    [][ last'.op = "submitCustomer" =>
          LET name == Chars(last'.form.name)
              email == Chars(last'.form.email)
              nameFilled == \E k \in 1..Len(name) : name[k] # " "
              emailShaped ==
                  \E at, dot \in 1..Len(email) :
                      /\ email[at] = "@" /\ email[dot] = "."
                      /\ 1 < at /\ at + 1 < dot /\ dot < Len(email)
                      /\ \A k \in ((at - 1)..(dot + 1)) : email[k] # " "
          IN /\ last'.started => nameFilled /\ emailShaped
             /\ last'.started => Len(pending') = Len(pending) + 1
             /\ ~last'.started =>
                   /\ pending' = pending /\ opsStarted' = opsStarted
                   /\ customers' = customers /\ leads' = leads
                   /\ modal = "customer" /\ modal' = "customer"
      ]_vars

(* The form was submitted with a name and the email z@y, which has no dot  *)
(* after the @: nothing was started and the dialog is open.                *)
C8_Witness ==
    /\ last.op = "submitCustomer"
    /\ last.form.name = "Zed"
    /\ last.form.email = "z@y"
    /\ ~last.started
    /\ modal = "customer"
    /\ pending = <<>>

-----------------------------------------------------------------------------
(* The dashboard.                                                          *)

-----------------------------------------------------------------------------
(* Ownership.                                                              *)

(* C10: while a user is authenticated, every customer of the store that    *)
(* addCustomer created (its createdAt is a time of this run) has the       *)
(* _id of that user as ownerId; and no update changes an ownerId, so the   *)
(* other customers keep the ownerId of the mock data.                      *)
C10_OwnerIsCurrentUser ==
    ~IsNull(user) =>
        \A i \in 1..Len(customers) :
            IF customers[i].createdAt >= ClockStart
            THEN customers[i].ownerId = Val(user)._id
            ELSE customers[i].ownerId = "1"

-----------------------------------------------------------------------------
(* The mock store.                                                         *)

(* C11: whenever the authenticated user changes from none to some user,    *)
(* the store is reset to the records of the mock data: the 3 mock          *)
(* customers and the 4 mock leads, whatever an earlier session did.        *)
C11_ResetOnLogin ==
    [][ (IsNull(user) /\ ~IsNull(user')) =>
          /\ Len(customers') = 3
          /\ customers' = mockCustomers
          /\ Len(leads') = 4
          /\ {leads'[i] : i \in 1..Len(leads')} = {mockLeads[i] : i \in 1..Len(mockLeads)}
      ]_vars

(* A second session has just begun after one in which records were        *)
(* deleted or added and the dashboard was shown: the store holds the mock  *)
(* records again.                                                          *)
C11_Witness ==
    /\ last.op = "loginOk"
    /\ issued = 2
    /\ opsStarted > 0
    /\ customers = mockCustomers
    /\ Len(leads) = 4
    /\ leads # mockLeads

(* C12: no two customers of the store share an _id and no two leads share  *)
(* an _id, after any adds and deletes.                                     *)
C12_UniqueIds ==
    /\ \A i, j \in 1..Len(customers) : customers[i]._id = customers[j]._id => i = j
    /\ \A i, j \in 1..Len(leads) : leads[i]._id = leads[j]._id => i = j

-----------------------------------------------------------------------------
(* The loading flag.                                                       *)

(* C13: loading is true in every state in which a mutation of the store is *)
(* in flight, also when several mutations overlap.                         *)
C13_LoadingWhilePending ==
    pending # <<>> => loading

(* C14: a mutation in flight does not stay in flight for ever, and while   *)
(* no mutation is in flight loading is false, whether the bodies of the    *)
(* mutations ran to their end or threw.                                    *)
C14_MutationsComplete ==
    /\ (pending # <<>>) ~> (pending = <<>>)
    /\ [](pending = <<>> => ~loading)

(* Two mutations were started, the body of the last one to complete threw, *)
(* and nothing is in flight: loading is false.                             *)
C14_Witness ==
    /\ last.op = "mutationThrew"
    /\ opsStarted = 2
    /\ pending = <<>>
    /\ ~loading


(* C15: the user and the token that the mount effect restores are those of *)
(* the most recent successful login in the browser, and of one login:      *)
(* the token is the last one issued, and it was issued to the restored     *)
(* user.                                                                   *)
C15_RestoresLatestLogin ==
    (last.op = "mount" /\ ~IsNull(user)) =>
        /\ ~IsNull(token)
        /\ Val(token) = TokenFor(AccountOf(Val(user).email), issued)
        /\ Val(user)._id = AccountOf(Val(user).email).id


C17_FailedLoginKeepsSession ==
    [][ /\ (last'.op \in {"loginStart", "loginFail"}) =>
              /\ user' = user
              /\ token' = token
              /\ localStorage' = localStorage
              /\ sessionStorage' = sessionStorage
        /\ (~IsNull(authReq) /\ ~IsNull(authReq')) =>
              /\ user' = user
              /\ token' = token
              /\ localStorage' = localStorage
              /\ sessionStorage' = sessionStorage
        /\ last'.op = "loginFail" =>
              /\ last'.rethrown
              /\ ~authLoading'
              /\ IsNull(authReq') ]_vars

C17_Witness ==
    /\ last.op = "loginFail"
    /\ issued = 1
    /\ IsNull(user)
    /\ IsNull(token)
    /\ ~authLoading


(* C18: a register call that resolves leaves the user signed in as the     *)
(* account just registered, with user and token set and stored in          *)
(* localStorage; a register call whose registration request or follow-up   *)
(* login request fails leaves user, token and both storages unchanged,     *)
(* rethrows the error and ends with the auth loading flag false.           *)
C18_RegisterAutoLogin ==
    [][ /\ last'.op = "registerOk" =>
              /\ ~IsNull(authReq)
              /\ ~IsNull(user')
              /\ Val(user').email = Val(authReq).email
              /\ Val(user')._id = AccountOf(Val(authReq).email).id
              /\ token' = Some(TokenFor(AccountOf(Val(authReq).email), issued'))
              /\ localStorage'.crm_token = token'
              /\ ~IsNull(localStorage'.crm_user)
              /\ JSONParse(Val(localStorage'.crm_user)) = Val(user')
              /\ ~authLoading'
        /\ (last'.op \in {"registerStart", "registerAccepted", "registerFail"}) =>
              /\ user' = user
              /\ token' = token
              /\ localStorage' = localStorage
              /\ sessionStorage' = sessionStorage
        /\ last'.op = "registerFail" =>
              /\ last'.rethrown
              /\ ~authLoading'
              /\ IsNull(authReq') ]_vars

C18_Witness ==
    /\ last.op = "registerOk"
    /\ ~IsNull(user)
    /\ Val(user).email = BobEmail
    /\ localStorage.crm_token = token
    /\ issued = 2


(* C19: in every state with a user signed in, the Login page renders a     *)
(* redirect and not its form, whatever the route guard recorded: to the    *)
(* recorded pathname, to /dashboard when none was recorded, and never to   *)
(* /login itself; so the state after a successful login is one in which    *)
(* the page redirects.                                                     *)
C19_LoginPageRedirects ==
    /\ ~IsNull(user) =>
          \A from \in Froms :
              /\ LoginPage(user, from).element = "Navigate"
              /\ LoginPage(user, from).to =
                     (IF IsNull(from) THEN "/dashboard" ELSE Val(from))
              /\ LoginPage(user, from).to # "/login"
    /\ (last.op = "renderLogin" /\ ~IsNull(user)) =>
          /\ last.view.element = "Navigate"
          /\ last.view.to = (IF IsNull(last.from) THEN "/dashboard" ELSE Val(last.from))
    /\ last.op = "loginOk" => ~IsNull(user)

(* The page was rendered for a signed-in visitor whom the guard of         *)
(* /customers had sent to /login.                                          *)
C19_Witness ==
    /\ last.op = "renderLogin"
    /\ ~IsNull(user)
    /\ last.from = Some("/customers")
    /\ last.view = [element |-> "Navigate", to |-> "/customers", replace |-> TRUE]

(* C20: the login form calls login only with an email that is not empty    *)
(* and holds the shape text@text.text and a password of at least 6         *)
(* characters; a submission that calls nothing sends no request and leaves *)
(* user, token, both storages and the auth loading flag as they were.      *)
C20_LoginFormValidation ==
    [][ /\ (IsNull(authReq) /\ ~IsNull(authReq')) =>
              LET email == Chars(Val(authReq').email)
                  password == Chars(Val(authReq').password)
              IN /\ Len(email) > 0
                 /\ \E at, dot \in 1..Len(email) :
                        /\ email[at] = "@" /\ email[dot] = "."
                        /\ 1 < at /\ at + 1 < dot /\ dot < Len(email)
                        /\ \A k \in ((at - 1)..(dot + 1)) : email[k] # " "
                 /\ Len(password) >= 6
        /\ last'.op = "loginRejected" =>
              /\ authReq' = authReq
              /\ IsNull(authReq')
              /\ user' = user
              /\ token' = token
              /\ localStorage' = localStorage
              /\ sessionStorage' = sessionStorage
              /\ authLoading' = authLoading
      ]_vars

(* The form was submitted with a known email and a password of five        *)
(* characters: nothing was sent.                                           *)
C20_Witness ==
    /\ last.op = "loginRejected"
    /\ last.form.email = AnnEmail
    /\ last.form.password = "12345"
    /\ last.errors = {"password"}
    /\ IsNull(authReq)
    /\ ~authLoading


(* C21: an update is a pure field edit.  When updateCustomer(id, form)     *)
(* completes, the list keeps its length and order, every customer keeps    *)
(* its _id, ownerId and createdAt, no customer with another _id changes,   *)
(* at most one customer changes at all, and the leads stay as they were;   *)
(* when updateLead(id, form) completes, the same holds of the leads with   *)
(* their _id, customerId and createdAt, and the customers stay as they     *)
(* were.                                                                   *)
C21_UpdateIsFieldEdit ==
    [][ /\ ( /\ pending # <<>>
             /\ Head(pending).op = "updateCustomer"
             /\ pending' = Tail(pending)
             /\ last'.op = "step" ) =>
              /\ Len(customers') = Len(customers)
              /\ \A i \in 1..Len(customers) :
                    /\ customers'[i]._id = customers[i]._id
                    /\ customers'[i].ownerId = customers[i].ownerId
                    /\ customers'[i].createdAt = customers[i].createdAt
                    /\ customers[i]._id # Head(pending).id =>
                          customers'[i] = customers[i]
              /\ Cardinality({i \in 1..Len(customers) :
                                 customers'[i] # customers[i]}) <= 1
              /\ leads' = leads
        /\ ( /\ pending # <<>>
             /\ Head(pending).op = "updateLead"
             /\ pending' = Tail(pending)
             /\ last'.op = "step" ) =>
              /\ Len(leads') = Len(leads)
              /\ \A i \in 1..Len(leads) :
                    /\ leads'[i]._id = leads[i]._id
                    /\ leads'[i].customerId = leads[i].customerId
                    /\ leads'[i].createdAt = leads[i].createdAt
                    /\ leads[i]._id # Head(pending).id => leads'[i] = leads[i]
              /\ Cardinality({i \in 1..Len(leads) : leads'[i] # leads[i]}) <= 1
              /\ customers' = customers
      ]_vars


(* C22: a render of the Dashboard is read-only: the leads list of the CRM  *)
(* context and the module-level array mockLeads hold the same leads in the *)
(* same order after the render as before it.                               *)
C22_RenderIsReadOnly ==
    [][ last'.op = "renderDashboard" =>
          /\ leads' = leads
          /\ mockLeadsArr' = mockLeadsArr ]_vars


(* C23: the recent-leads list of the Dashboard holds min(5, number of      *)
(* leads) leads of the store, each once, ordered by createdAt from newest  *)
(* to oldest, and no lead left out of it is newer than a lead in it.       *)
C23_RecentLeads ==
    last.op = "renderDashboard" =>
        LET r == last.recent
            shown == {r[i] : i \in 1..Len(r)}
            all == {leads[i] : i \in 1..Len(leads)}
        IN /\ Len(r) = (IF Len(leads) < 5 THEN Len(leads) ELSE 5)
           /\ shown \subseteq all
           /\ Cardinality(shown) = Len(r)
           /\ \A i, j \in 1..Len(r) : i < j => r[i].createdAt >= r[j].createdAt
           /\ \A l \in all \ shown : \A x \in shown : l.createdAt <= x.createdAt

(* The Dashboard was rendered over six leads: five are shown.              *)
C23_Witness ==
    /\ last.op = "renderDashboard"
    /\ Len(leads) = 6
    /\ Len(last.recent) = 5
    /\ last.recent[1].createdAt > ClockStart


(* C24: the conversion rate on the Dashboard is 0 over no leads and        *)
(* otherwise 100 * converted / total rounded to the nearest integer, a     *)
(* half rounded up as Math.round does; it is an integer from 0 to 100 and  *)
(* no division by zero takes place (the rate is never NaN).  The rate of a *)
(* customer without leads is 0.                                            *)
C24_ConversionRate ==
    last.op = "renderConversionRate" =>
        /\ last.rate \in 0..100
        /\ last.customerRate # NaN
        /\ last.total = 0 => (last.rate = 0 /\ last.customerRate = DoubleZero)
        /\ last.total > 0 =>
              last.rate = (200 * last.converted + last.total) \div (2 * last.total)

=============================================================================
